---- MODULE Spec2Model ----
(***************************************************************************)
(* Model of the CAN session manager (App.StartCAN / App.StopCAN /          *)
(* App.SendFrame) and its receive goroutine (App.receiveLoop).             *)
(*                                                                         *)
(* Every access to shared memory (the mutex-protected slot a.session, the  *)
(* context's cancellation flag, the connection, the done channel, the      *)
(* event sink) is one atomic step; a critical section of a.mu is one       *)
(* atomic step.  Callers are concurrent goroutines invoking the bound      *)
(* methods; each session that gets launched has one worker goroutine.      *)
(***************************************************************************)
EXTENDS Integers, Sequences, FiniteSets, TLC

\* ---------------------------------------------------------------- bounds
NumCallers == 2          \* concurrent goroutines calling the bound methods
MaxCalls == 3            \* StartCAN / StopCAN / SendFrame calls made in one run
MaxFrames == 2           \* units the transport delivers in one run
MaxUiFrames == 102       \* frame events delivered to the page in one run

\* ------------------------------------------------------ program constants
MaxDataLength == 8
MaxID == 2^11 - 1
MaxExtendedID == 2^29 - 1
MaxShownFrames == 100
MaxShownErrors == 10

Callers == 1..NumCallers
Sessions == 1..MaxCalls
Nil == 0
Free == 0

\* inputs drawn for the calls and for the transport
FrameIds == {256, 512}
Units == {<<"data", i>> : i \in FrameIds} \cup {<<"ef", 0>>}
SendIds == {291, MaxID, MaxID + 1, MaxExtendedID + 1}
SendLens == {3, MaxDataLength, MaxDataLength + 1}

\* error texts delivered to the page
UiMessages == {"CAN already started", "CAN not started", "receive: fault"}

\* interface names are sequences of characters
Space == {" ", "\t"}
Fallback == <<"v", "c", "a", "n", "0">>
RawNames == {<<>>, <<" ", "\t">>, <<"\t", "c", " ", "0", " ">>}

VARIABLES
    session,      \* a.session: Nil or the id of the installed canSession
    nextId,       \* number of canSession objects constructed so far
    cancelled,    \* cancelled[s]: sess.ctx.Err() # nil
    conn,         \* conn[s]: the dialed net.Conn: "nil", "open" or "closed"
    sconn,        \* sconn[s]: sess.conn / sess.rx / sess.tx have been set
    done,         \* done[s]: number of close(sess.done) executed
    wpc,          \* wpc[s]: position of receiveLoop(sess)
    cur,          \* cur[s]: what the last sess.rx.Receive() produced
    rxlog,        \* rxlog[s]: units the transport delivered to the worker, each
                  \* with whether the session was not cancelled at that moment
    events,       \* everything handed to runtime.EventsEmit, in order
    txcount,      \* number of tx.TransmitFrame invocations
    pc,           \* pc[c]: position of caller c
    loc,          \* loc[c]: the locals of the call caller c is in
    ret,          \* the return made by the step just taken (NoRet if none)
    calls,        \* number of calls made so far
    early,        \* sessions a StopCAN captured while their dial was unresolved
    iface,        \* iface[s]: sess.iface
    frames,       \* CanPage: the displayed frame list, newest first
    errors,       \* CanPage: the displayed error list, newest first
    arrived,      \* CanPage: number of frame events delivered to onFrame
    mu,           \* a.mu: Free or the goroutine holding it
    lpc,          \* lpc[c]: position of caller c, one step per statement
    lwpc          \* lwpc[s]: position of receiveLoop(sess), likewise

vars == <<session, nextId, cancelled, conn, sconn, done, wpc, cur, rxlog,
          events, txcount, pc, loc, ret, calls, early, iface,
          frames, errors, arrived, mu, lpc, lwpc>>

sessVars == <<cancelled, conn, sconn, done>>
workerVars == <<wpc, cur, rxlog>>
uiVars == <<frames, errors, arrived>>
lockVars == <<mu, lpc, lwpc>>
backendVars == <<session, nextId, sessVars, workerVars, events, txcount, pc, loc,
                 ret, calls, early, iface, lockVars>>

NoLoc == [sess |-> Nil, conn |-> FALSE, err |-> "none"]
NoUnit == <<"none", 0>>
NoName == <<>>
NoRet == [op |-> "none", sess |-> Nil, val |-> "none"]

Init ==
    /\ session = Nil
    /\ nextId = 0
    /\ cancelled = [s \in Sessions |-> FALSE]
    /\ conn = [s \in Sessions |-> "nil"]
    /\ sconn = [s \in Sessions |-> FALSE]
    /\ done = [s \in Sessions |-> 0]
    /\ wpc = [s \in Sessions |-> "none"]
    /\ cur = [s \in Sessions |-> NoUnit]
    /\ rxlog = [s \in Sessions |-> <<>>]
    /\ events = <<>>
    /\ txcount = 0
    /\ pc = [c \in Callers |-> "idle"]
    /\ loc = [c \in Callers |-> NoLoc]
    /\ ret = NoRet
    /\ calls = 0
    /\ early = {}
    /\ iface = [s \in Sessions |-> NoName]
    /\ frames = <<>>
    /\ errors = <<>>
    /\ arrived = 0
    /\ mu = Free
    /\ lpc = [c \in Callers |-> "idle"]
    /\ lwpc = [s \in Sessions |-> "none"]

\* ----------------------------------------------------------------- helpers
\* strings.TrimSpace: leading and trailing white space removed
RECURSIVE TrimLeft(_)
TrimLeft(n) == IF n # <<>> /\ Head(n) \in Space THEN TrimLeft(Tail(n)) ELSE n

RECURSIVE TrimRight(_)
TrimRight(n) ==
    IF n # <<>> /\ n[Len(n)] \in Space THEN TrimRight(SubSeq(n, 1, Len(n) - 1)) ELSE n

TrimSpace(n) == TrimRight(TrimLeft(n))

\* variant: only the empty name falls back, and nothing is trimmed
IfaceOfUntrimmed(name) == IF name = <<>> THEN Fallback ELSE name

\* lines 404-407: the name the session is constructed with
IfaceOf(name) == IF TrimSpace(name) = <<>> THEN Fallback ELSE TrimSpace(name)

\* caller c starts a call
Call(c) ==
    /\ pc[c] = "idle"
    /\ calls < MaxCalls
    /\ calls' = calls + 1

\* the call op of caller c, acting on session s (Nil: on none), returns r
Return(c, op, s, r) ==
    /\ pc' = [pc EXCEPT ![c] = "idle"]
    /\ loc' = [loc EXCEPT ![c] = NoLoc]
    /\ ret' = [op |-> op, sess |-> s, val |-> r]

Goto(c, l) ==
    /\ pc' = [pc EXCEPT ![c] = l]
    /\ ret' = NoRet

\* a.emitError: runtime.EventsEmit(a.ctx, "can:error", ...) appends to the sink;
\* s is the session the message is about, msg its kind
emitError(s, msg) == Append(events, <<"error", s, msg>>)

\* variant: the frame event is put in front of the earlier ones
emitFrameFirst(s, id) == <<<<"frame", s, id, iface[s]>>>> \o events

\* runtime.EventsEmit(a.ctx, "can:frame", ...) appends to the sink
emitFrame(s, id) == Append(events, <<"frame", s, id, iface[s]>>)

\* variant: clear on mere presence, without the identity comparison
ClearAlways(s) == Nil

\* "if a.session == sess { a.session = nil }"
ClearIfMine(s) == IF session = s THEN Nil ELSE session

\* variant: the length check is off by one
TooLongOffByOne(len) == len > MaxDataLength + 1

\* "if len(data) > 8"
TooLong(len) == len > MaxDataLength

\* can.Frame.Validate as called by SendFrame
Validate(id, extended) ==
    IF extended THEN id <= MaxExtendedID ELSE id <= MaxID

RECURSIVE SumLen(_)
SumLen(n) == IF n = 0 THEN 0 ELSE Len(rxlog[n]) + SumLen(n - 1)
\* units delivered so far, over all sessions (bounds the run)
Delivered == SumLen(MaxCalls)

\* ---------------------------------------------------------------- StartCAN
\* lines 409-413: the slot is occupied
StartRejected(c) ==
    /\ Call(c)
    /\ session # Nil
    /\ Return(c, "StartCAN", Nil, "AlreadyActive")
    /\ UNCHANGED <<session, nextId, sessVars, workerVars, events, txcount, early, iface, uiVars, lockVars>>

\* variant: a session whose dial is still in flight does not count as present
StartInstallIfNoTx(c) ==
    /\ Call(c)
    /\ IF session = Nil THEN TRUE ELSE ~sconn[session]
    /\ nextId' = nextId + 1
    /\ session' = nextId + 1
    /\ \E name \in RawNames : iface' = [iface EXCEPT ![nextId + 1] = IfaceOf(name)]
    /\ loc' = [loc EXCEPT ![c] = [NoLoc EXCEPT !.sess = nextId + 1]]
    /\ Goto(c, "dial")
    /\ UNCHANGED <<sessVars, workerVars, events, txcount, early, uiVars, lockVars>>

\* lines 409-422: the slot is empty; construct the session and install it
StartInstall(c) ==
    /\ Call(c)
    /\ session = Nil
    /\ nextId' = nextId + 1
    /\ session' = nextId + 1
    /\ \E name \in RawNames : iface' = [iface EXCEPT ![nextId + 1] = IfaceOf(name)]
    /\ loc' = [loc EXCEPT ![c] = [NoLoc EXCEPT !.sess = nextId + 1]]
    /\ Goto(c, "dial")
    /\ UNCHANGED <<sessVars, workerVars, events, txcount, early, uiVars, lockVars>>

\* line 424: socketcan.DialContext resolves, with a connection or an error
StartDial(c) ==
    /\ pc[c] = "dial"
    /\ LET s == loc[c].sess IN
       \/ /\ conn' = [conn EXCEPT ![s] = "open"]
          /\ Goto(c, "ctxchk")
          /\ UNCHANGED loc
       \/ /\ \E e \in (IF cancelled[s] THEN {"canceled", "dialfail"} ELSE {"dialfail"}) :
                loc' = [loc EXCEPT ![c].err = e]
          /\ Goto(c, "dialerr")
          /\ UNCHANGED conn
    /\ UNCHANGED <<session, nextId, cancelled, sconn, done, workerVars, events, txcount, calls, early, iface, uiVars, lockVars>>

\* variant: the dial error is emitted whether or not the context is cancelled
StartDialErrAlwaysEmit(c) ==
    /\ pc[c] = "dialerr"
    /\ Goto(c, "dialerr_emit")
    /\ UNCHANGED <<session, nextId, sessVars, workerVars, events, txcount, loc, calls, early, iface, uiVars, lockVars>>

\* line 426: "if ctx.Err() == nil"
StartDialErrCheck(c) ==
    /\ pc[c] = "dialerr"
    /\ Goto(c, IF cancelled[loc[c].sess] THEN "fail_cancel" ELSE "dialerr_emit")
    /\ UNCHANGED <<session, nextId, sessVars, workerVars, events, txcount, loc, calls, early, iface, uiVars, lockVars>>

\* line 427: a.emitError(dial error)
StartDialErrEmit(c) ==
    /\ pc[c] = "dialerr_emit"
    /\ events' = emitError(loc[c].sess, "dial")
    /\ Goto(c, "fail_cancel")
    /\ UNCHANGED <<session, nextId, sessVars, workerVars, txcount, loc, calls, early, iface, uiVars, lockVars>>

\* line 439: "if ctx.Err() != nil" after a successful dial
StartCtxCheck(c) ==
    /\ pc[c] = "ctxchk"
    /\ IF cancelled[loc[c].sess]
         THEN /\ loc' = [loc EXCEPT ![c].err = "canceled"]
              /\ Goto(c, "fail_connclose")
         ELSE /\ Goto(c, "install")
              /\ UNCHANGED loc
    /\ UNCHANGED <<session, nextId, sessVars, workerVars, events, txcount, calls, early, iface, uiVars, lockVars>>

\* line 440: conn.Close() of the connection that is discarded
StartFailConnClose(c) ==
    /\ pc[c] = "fail_connclose"
    /\ conn' = [conn EXCEPT ![loc[c].sess] = "closed"]
    /\ Goto(c, "fail_cancel")
    /\ UNCHANGED <<session, nextId, cancelled, sconn, done, workerVars, events, txcount, loc, calls, early, iface, uiVars, lockVars>>

\* lines 429, 441: cancel()
StartFailCancel(c) ==
    /\ pc[c] = "fail_cancel"
    /\ cancelled' = [cancelled EXCEPT ![loc[c].sess] = TRUE]
    /\ Goto(c, "fail_done")
    /\ UNCHANGED <<session, nextId, conn, sconn, done, workerVars, events, txcount, loc, calls, early, iface, uiVars, lockVars>>

\* variant: the failure path leaves the completion signal unfired
StartFailDoneSkip(c) ==
    /\ pc[c] = "fail_done"
    /\ Goto(c, "fail_clear")
    /\ UNCHANGED <<session, nextId, sessVars, workerVars, events, txcount, loc, calls, early, iface, uiVars, lockVars>>

\* lines 430, 442: close(sess.done)
StartFailDone(c) ==
    /\ pc[c] = "fail_done"
    /\ done' = [done EXCEPT ![loc[c].sess] = @ + 1]
    /\ Goto(c, "fail_clear")
    /\ UNCHANGED <<session, nextId, cancelled, conn, sconn, workerVars, events, txcount, loc, calls, early, iface, uiVars, lockVars>>

\* variant: the failed StartCAN returns without clearing the slot
StartFailNoClear(c) ==
    /\ pc[c] = "fail_clear"
    /\ Return(c, "StartCAN", loc[c].sess, loc[c].err)
    /\ UNCHANGED <<session, nextId, sessVars, workerVars, events, txcount, calls, early, iface, uiVars, lockVars>>

\* lines 431-436, 443-448: clear the slot if it is still this session, return the error
StartFailClear(c) ==
    /\ pc[c] = "fail_clear"
    /\ session' = ClearIfMine(loc[c].sess)
    /\ Return(c, "StartCAN", loc[c].sess, loc[c].err)
    /\ UNCHANGED <<nextId, sessVars, workerVars, events, txcount, calls, early, iface, uiVars, lockVars>>

\* lines 451-455: store conn, rx, tx in the session under the lock
StartSetConn(c) ==
    /\ pc[c] = "install"
    /\ sconn' = [sconn EXCEPT ![loc[c].sess] = TRUE]
    /\ Goto(c, "launch")
    /\ UNCHANGED <<session, nextId, cancelled, conn, done, workerVars, events, txcount, loc, calls, early, iface, uiVars, lockVars>>

\* lines 457-458: go a.receiveLoop(sess); return nil
StartLaunch(c) ==
    /\ pc[c] = "launch"
    /\ wpc' = [wpc EXCEPT ![loc[c].sess] = "recv"]
    /\ Return(c, "StartCAN", loc[c].sess, "ok")
    /\ UNCHANGED <<session, nextId, sessVars, cur, rxlog, events, txcount, calls, early, iface, uiVars, lockVars>>

StartCAN(c) ==
    \/ StartRejected(c) \/ StartInstall(c) \/ StartDial(c)
    \/ StartDialErrCheck(c) \/ StartDialErrEmit(c) \/ StartCtxCheck(c)
    \/ StartFailConnClose(c) \/ StartFailCancel(c) \/ StartFailDone(c)
    \/ StartFailClear(c) \/ StartSetConn(c) \/ StartLaunch(c)

\* ------------------------------------------------------------- receiveLoop
\* line 474: sess.rx.Receive() returns: a unit, or false (end of stream,
\* a fault, or net.ErrClosed once the connection has been closed)
WReceive(s) ==
    /\ wpc[s] = "recv"
    /\ IF conn[s] = "closed"
         THEN /\ cur' = [cur EXCEPT ![s] = <<"end", "closed">>]
              /\ wpc' = [wpc EXCEPT ![s] = "after"]
              /\ UNCHANGED rxlog
         ELSE \/ /\ Delivered < MaxFrames
                 /\ \E u \in Units :
                       /\ cur' = [cur EXCEPT ![s] = u]
                       /\ rxlog' = [rxlog EXCEPT ![s] = Append(@, <<u, ~cancelled[s]>>)]
                 /\ wpc' = [wpc EXCEPT ![s] = "check"]
              \/ /\ \E k \in {"eof", "fault"} :
                       cur' = [cur EXCEPT ![s] = <<"end", k>>]
                 /\ wpc' = [wpc EXCEPT ![s] = "after"]
                 /\ UNCHANGED rxlog
    /\ UNCHANGED <<session, nextId, sessVars, events, txcount, pc, loc, calls, early, iface, uiVars, lockVars>>
    /\ ret' = NoRet

\* lines 475-479, 493: return when cancelled, else dispatch on the unit
WCheck(s) ==
    /\ wpc[s] = "check"
    /\ wpc' = [wpc EXCEPT ![s] =
                 IF cancelled[s] THEN "defer_done"
                 ELSE IF cur[s][1] = "ef" THEN "errchk" ELSE "emitframe"]
    /\ cur' = [cur EXCEPT ![s] = IF cancelled[s] THEN NoUnit ELSE @]
    /\ UNCHANGED <<session, nextId, sessVars, rxlog, events, txcount, pc, loc, calls, early, iface, uiVars, lockVars>>
    /\ ret' = NoRet

\* line 480: "if sess.ctx.Err() == nil" for an error frame, else continue
WErrCheck(s) ==
    /\ wpc[s] = "errchk"
    /\ wpc' = [wpc EXCEPT ![s] = IF cancelled[s] THEN "recv" ELSE "emiterr"]
    /\ cur' = [cur EXCEPT ![s] = NoUnit]
    /\ UNCHANGED <<session, nextId, sessVars, rxlog, events, txcount, pc, loc, calls, early, iface, uiVars, lockVars>>
    /\ ret' = NoRet

\* variant: the worker returns after reporting an error frame
WEmitErrStop(s) ==
    /\ wpc[s] = "emiterr"
    /\ events' = emitError(s, "errframe")
    /\ wpc' = [wpc EXCEPT ![s] = "defer_done"]
    /\ UNCHANGED <<session, nextId, sessVars, cur, rxlog, txcount, pc, loc, calls, early, iface, uiVars, lockVars>>
    /\ ret' = NoRet

\* lines 481-490: emit the error frame's message, continue
WEmitErr(s) ==
    /\ wpc[s] = "emiterr"
    /\ events' = emitError(s, "errframe")
    /\ wpc' = [wpc EXCEPT ![s] = "recv"]
    /\ UNCHANGED <<session, nextId, sessVars, cur, rxlog, txcount, pc, loc, calls, early, iface, uiVars, lockVars>>
    /\ ret' = NoRet

\* lines 493-507: emit the frame event, continue
WEmitFrame(s) ==
    /\ wpc[s] = "emitframe"
    /\ events' = emitFrame(s, cur[s][2])
    /\ wpc' = [wpc EXCEPT ![s] = "recv"]
    /\ cur' = [cur EXCEPT ![s] = NoUnit]
    /\ UNCHANGED <<session, nextId, sessVars, rxlog, txcount, pc, loc, calls, early, iface, uiVars, lockVars>>
    /\ ret' = NoRet

\* variant: the receive fault is reported without looking at the context
WAfterIgnoresCancel(s) ==
    /\ wpc[s] = "after"
    /\ wpc' = [wpc EXCEPT ![s] =
                 IF cur[s][2] = "fault" THEN "emitrecverr" ELSE "defer_done"]
    /\ cur' = [cur EXCEPT ![s] = NoUnit]
    /\ UNCHANGED <<session, nextId, sessVars, rxlog, events, txcount, pc, loc, calls, early, iface, uiVars, lockVars>>
    /\ ret' = NoRet

\* line 510: err # nil, not cancelled, not net.ErrClosed
WAfter(s) ==
    /\ wpc[s] = "after"
    /\ wpc' = [wpc EXCEPT ![s] =
                 IF cur[s][2] = "fault" /\ ~cancelled[s] THEN "emitrecverr" ELSE "defer_done"]
    /\ cur' = [cur EXCEPT ![s] = NoUnit]
    /\ UNCHANGED <<session, nextId, sessVars, rxlog, events, txcount, pc, loc, calls, early, iface, uiVars, lockVars>>
    /\ ret' = NoRet

\* line 511: a.emitError(receive error)
WEmitRecvErr(s) ==
    /\ wpc[s] = "emitrecverr"
    /\ events' = emitError(s, "receive")
    /\ wpc' = [wpc EXCEPT ![s] = "defer_done"]
    /\ UNCHANGED <<session, nextId, sessVars, cur, rxlog, txcount, pc, loc, calls, early, iface, uiVars, lockVars>>
    /\ ret' = NoRet

\* line 463 (deferred): close(sess.done)
WDeferDone(s) ==
    /\ wpc[s] = "defer_done"
    /\ done' = [done EXCEPT ![s] = @ + 1]
    /\ wpc' = [wpc EXCEPT ![s] = "defer_close"]
    /\ UNCHANGED <<session, nextId, cancelled, conn, sconn, cur, rxlog, events, txcount, pc, loc, calls, early, iface, uiVars, lockVars>>
    /\ ret' = NoRet

\* variant: the deferred cleanup also resets sess.conn after closing it
WDeferCloseReset(s) ==
    /\ wpc[s] = "defer_close"
    /\ conn' = [conn EXCEPT ![s] = IF sconn[s] THEN "closed" ELSE @]
    /\ sconn' = [sconn EXCEPT ![s] = FALSE]
    /\ wpc' = [wpc EXCEPT ![s] = "defer_clear"]
    /\ UNCHANGED <<session, nextId, cancelled, done, cur, rxlog, events, txcount, pc, loc, calls, early, iface, uiVars, lockVars>>
    /\ ret' = NoRet

\* lines 464-466 (deferred): sess.conn.Close()
WDeferClose(s) ==
    /\ wpc[s] = "defer_close"
    /\ conn' = [conn EXCEPT ![s] = IF sconn[s] THEN "closed" ELSE @]
    /\ wpc' = [wpc EXCEPT ![s] = "defer_clear"]
    /\ UNCHANGED <<session, nextId, cancelled, sconn, done, cur, rxlog, events, txcount, pc, loc, calls, early, iface, uiVars, lockVars>>
    /\ ret' = NoRet

\* lines 467-471 (deferred): clear the slot if it is still this session
WDeferClear(s) ==
    /\ wpc[s] = "defer_clear"
    /\ session' = ClearIfMine(s)
    /\ wpc' = [wpc EXCEPT ![s] = "exited"]
    /\ UNCHANGED <<nextId, sessVars, cur, rxlog, events, txcount, pc, loc, calls, early, iface, uiVars, lockVars>>
    /\ ret' = NoRet

receiveLoop(s) ==
    \/ WReceive(s) \/ WCheck(s) \/ WErrCheck(s) \/ WEmitErr(s) \/ WEmitFrame(s)
    \/ WAfter(s) \/ WEmitRecvErr(s) \/ WDeferDone(s) \/ WDeferClose(s) \/ WDeferClear(s)

\* ----------------------------------------------------------------- StopCAN
\* variant: StopCAN without a session reports an error
StopNoSessionErr(c) ==
    /\ Call(c)
    /\ session = Nil
    /\ Return(c, "StopCAN", Nil, "NotStarted")
    /\ UNCHANGED <<session, nextId, sessVars, workerVars, events, txcount, early, iface, uiVars, lockVars>>

\* lines 517-531: the slot is empty: return nil
StopNoSession(c) ==
    /\ Call(c)
    /\ session = Nil
    /\ Return(c, "StopCAN", Nil, "nil")
    /\ UNCHANGED <<session, nextId, sessVars, workerVars, events, txcount, early, iface, uiVars, lockVars>>

\* lines 517-527: capture the session, its cancel, conn and done under the lock
StopCapture(c) ==
    /\ Call(c)
    /\ session # Nil
    /\ loc' = [loc EXCEPT ![c] = [NoLoc EXCEPT !.sess = session, !.conn = sconn[session]]]
    /\ early' = IF \E d \in Callers : pc[d] = "dial" /\ loc[d].sess = session
                THEN early \cup {session} ELSE early
    /\ Goto(c, "stop_cancel")
    /\ UNCHANGED <<session, nextId, sessVars, workerVars, events, txcount, iface, uiVars, lockVars>>

\* lines 533-535: cancel()
StopCancel(c) ==
    /\ pc[c] = "stop_cancel"
    /\ cancelled' = [cancelled EXCEPT ![loc[c].sess] = TRUE]
    /\ Goto(c, "stop_close")
    /\ UNCHANGED <<session, nextId, conn, sconn, done, workerVars, events, txcount, loc, calls, early, iface, uiVars, lockVars>>

\* lines 536-538: "if conn != nil { conn.Close() }" on the captured conn
StopClose(c) ==
    /\ pc[c] = "stop_close"
    /\ conn' = [conn EXCEPT ![loc[c].sess] = IF loc[c].conn THEN "closed" ELSE @]
    /\ Goto(c, "stop_wait")
    /\ UNCHANGED <<session, nextId, cancelled, sconn, done, workerVars, events, txcount, loc, calls, early, iface, uiVars, lockVars>>

\* variant: StopCAN does not wait for the completion signal
StopNoWait(c) ==
    /\ pc[c] = "stop_wait"
    /\ Goto(c, "stop_clear")
    /\ UNCHANGED <<session, nextId, sessVars, workerVars, events, txcount, loc, calls, early, iface, uiVars, lockVars>>

\* line 539: <-done
StopWait(c) ==
    /\ pc[c] = "stop_wait"
    /\ done[loc[c].sess] > 0
    /\ Goto(c, "stop_clear")
    /\ UNCHANGED <<session, nextId, sessVars, workerVars, events, txcount, loc, calls, early, iface, uiVars, lockVars>>

\* variant: StopCAN returns without clearing the slot
StopClearNoClear(c) ==
    /\ pc[c] = "stop_clear"
    /\ Return(c, "StopCAN", loc[c].sess, "nil")
    /\ UNCHANGED <<session, nextId, sessVars, workerVars, events, txcount, calls, early, iface, uiVars, lockVars>>

\* lines 541-546: clear the slot if it is still the captured session, return nil
StopClear(c) ==
    /\ pc[c] = "stop_clear"
    /\ session' = ClearIfMine(loc[c].sess)
    /\ Return(c, "StopCAN", loc[c].sess, "nil")
    /\ UNCHANGED <<nextId, sessVars, workerVars, events, txcount, calls, early, iface, uiVars, lockVars>>

StopCAN(c) ==
    \/ StopNoSession(c) \/ StopCapture(c) \/ StopCancel(c)
    \/ StopClose(c) \/ StopWait(c) \/ StopClear(c)

\* --------------------------------------------------------------- SendFrame
\* lines 551-553: the payload is too long
SendTooLong(c, id, len, extended) ==
    /\ Call(c)
    /\ TooLong(len)
    /\ Return(c, "SendFrame", Nil, "TooLong")
    /\ UNCHANGED <<session, nextId, sessVars, workerVars, events, txcount, early, iface, uiVars, lockVars>>

\* variant: the session is taken for its transmitter
CurrentTxAny == session

\* the transmitter SendFrame reads under the lock (lines 555-560)
CurrentTx == IF session # Nil /\ sconn[session] THEN session ELSE Nil

\* lines 555-564: no session, or a session without transmitter
SendNotStarted(c, id, len, extended) ==
    /\ Call(c)
    /\ ~TooLong(len)
    /\ CurrentTx = Nil
    /\ Return(c, "SendFrame", Nil, "NotStarted")
    /\ UNCHANGED <<session, nextId, sessVars, workerVars, events, txcount, early, iface, uiVars, lockVars>>

\* variant: a frame that fails validation is reported to the sink as well
SendInvalidEmits(c, id, len, extended) ==
    /\ Call(c)
    /\ ~TooLong(len)
    /\ CurrentTx # Nil
    /\ ~Validate(id, extended)
    /\ events' = emitError(CurrentTx, "invalid")
    /\ Return(c, "SendFrame", CurrentTx, "InvalidFrame")
    /\ UNCHANGED <<session, nextId, sessVars, workerVars, txcount, early, iface, uiVars, lockVars>>

\* lines 566-576: f.Validate() fails
SendInvalid(c, id, len, extended) ==
    /\ Call(c)
    /\ ~TooLong(len)
    /\ CurrentTx # Nil
    /\ ~Validate(id, extended)
    /\ Return(c, "SendFrame", CurrentTx, "InvalidFrame")
    /\ UNCHANGED <<session, nextId, sessVars, workerVars, events, txcount, early, iface, uiVars, lockVars>>

\* lines 555-578: a valid frame and a transmitter: go on to transmit
SendReady(c, id, len, extended) ==
    /\ Call(c)
    /\ ~TooLong(len)
    /\ CurrentTx # Nil
    /\ Validate(id, extended)
    /\ loc' = [loc EXCEPT ![c] = [NoLoc EXCEPT !.sess = CurrentTx]]
    /\ Goto(c, "send_tx")
    /\ UNCHANGED <<session, nextId, sessVars, workerVars, events, txcount, early, iface, uiVars, lockVars>>

\* line 580: tx.TransmitFrame: succeeds, or fails: on a closed connection
\* always, with the closed-connection error; on an open one with a fault or
\* the expired deadline
SendTransmit(c) ==
    /\ pc[c] = "send_tx"
    /\ txcount' = txcount + 1
    /\ \/ /\ conn[loc[c].sess] = "open"
          /\ Return(c, "SendFrame", loc[c].sess, "ok")
       \/ /\ Goto(c, "send_emit")
          /\ loc' = [loc EXCEPT ![c].err =
                       IF conn[loc[c].sess] = "open" THEN "fault" ELSE "closed"]
    /\ UNCHANGED <<session, nextId, sessVars, workerVars, events, calls, early, iface, uiVars, lockVars>>

\* variant: the transmit error is returned without being emitted
SendEmitSilent(c) ==
    /\ pc[c] = "send_emit"
    /\ Return(c, "SendFrame", loc[c].sess, "TransmitError")
    /\ UNCHANGED <<session, nextId, sessVars, workerVars, events, txcount, calls, early, iface, uiVars, lockVars>>

\* lines 581-582: a.emitError(err); return err
SendEmit(c) ==
    /\ pc[c] = "send_emit"
    /\ events' = emitError(loc[c].sess, "transmit")
    /\ Return(c, "SendFrame", loc[c].sess, "TransmitError")
    /\ UNCHANGED <<session, nextId, sessVars, workerVars, txcount, calls, early, iface, uiVars, lockVars>>

SendFrame(c) ==
    \/ \E id \in SendIds, len \in SendLens, extended \in BOOLEAN :
          \/ SendTooLong(c, id, len, extended)
          \/ SendNotStarted(c, id, len, extended)
          \/ SendInvalid(c, id, len, extended)
          \/ SendReady(c, id, len, extended)
    \/ SendTransmit(c)
    \/ SendEmit(c)

\* ------------------------------------------------------------ specification
Next ==
    \/ \E c \in Callers : StartCAN(c) \/ StopCAN(c) \/ SendFrame(c)
    \/ \E s \in Sessions : receiveLoop(s)

Spec == Init /\ [][Next]_vars

\* ----------------------------------------------------------------- CanPage
\* the first n elements: Array.prototype.slice(0, n)
Slice(list, n) == SubSeq(list, 1, IF Len(list) < n THEN Len(list) ELSE n)

\* line 32: setFrames((prev) => [payload, ...prev].slice(0, 100)); the
\* payload is identified by its number in the order of arrival
onFrame ==
    /\ arrived < MaxUiFrames
    /\ arrived' = arrived + 1
    /\ frames' = Slice(<<arrived + 1>> \o frames, MaxShownFrames)
    /\ UNCHANGED <<errors, backendVars>>

\* variant: the message is prepended without the comparison with the head
pushErrorAlways(msg) ==
    /\ errors' = Slice(<<msg>> \o errors, MaxShownErrors)
    /\ UNCHANGED <<frames, arrived, backendVars>>

\* lines 25-28: prev[0] === text ? prev : [text, ...prev].slice(0, 10)
pushError(msg) ==
    /\ errors' = IF errors # <<>> /\ errors[1] = msg
                 THEN errors
                 ELSE Slice(<<msg>> \o errors, MaxShownErrors)
    /\ UNCHANGED <<frames, arrived, backendVars>>

\* line 100: start() begins with setErrors([])
start ==
    /\ errors' = <<>>
    /\ UNCHANGED <<frames, arrived, backendVars>>

NextUI ==
    \/ onFrame
    \/ \E msg \in UiMessages : pushError(msg)
    \/ start

SpecUI == Init /\ [][NextUI]_vars

\* ------------------------------------------------------- the manager lock
\* The same methods with a.mu.Lock() and a.mu.Unlock() as steps of their own
\* and every statement between them a step.  The outcome of the dial and of
\* a Receive is arbitrary here.
Worker(s) == NumCallers + s

\* everything the steps at this level leave alone
muRest == <<conn, wpc, cur, rxlog, events, txcount, pc, early, iface, uiVars>>

LGoto(c, l) == lpc' = [lpc EXCEPT ![c] = l] /\ ret' = NoRet

LReturn(c, op, s, r) ==
    /\ lpc' = [lpc EXCEPT ![c] = "idle"]
    /\ loc' = [loc EXCEPT ![c] = NoLoc]
    /\ ret' = [op |-> op, sess |-> s, val |-> r]

\* a.mu.Lock() by goroutine p
Acquire(p) == mu = Free /\ mu' = p

\* a.mu.Unlock() by goroutine p
Release(p) == mu = p /\ mu' = Free

\* line 409: StartCAN begins (the name is local), a.mu.Lock()
MuStartLock(c) ==
    /\ lpc[c] = "idle" /\ calls < MaxCalls
    /\ calls' = calls + 1
    /\ Acquire(c)
    /\ LGoto(c, "start_check")
    /\ UNCHANGED <<session, nextId, sessVars, loc, lwpc, muRest>>

\* lines 410, 414-421: a.session # nil, or construct the session and install it
MuStartCheck(c) ==
    /\ lpc[c] = "start_check"
    /\ IF session # Nil
       THEN /\ LGoto(c, "start_unlock_busy")
            /\ UNCHANGED <<session, nextId, loc>>
       ELSE /\ nextId' = nextId + 1
            /\ session' = nextId + 1
            /\ loc' = [loc EXCEPT ![c] = [NoLoc EXCEPT !.sess = nextId + 1]]
            /\ LGoto(c, "start_unlock")
    /\ UNCHANGED <<sessVars, calls, mu, lwpc, muRest>>

\* lines 411-412: a.mu.Unlock(); return "CAN already started"
MuStartUnlockBusy(c) ==
    /\ lpc[c] = "start_unlock_busy"
    /\ Release(c)
    /\ LReturn(c, "StartCAN", Nil, "AlreadyActive")
    /\ UNCHANGED <<session, nextId, sessVars, calls, lwpc, muRest>>

\* variant: the lock is kept over the dial
MuStartUnlockLate(c) ==
    /\ lpc[c] = "start_unlock"
    /\ LGoto(c, "start_dial")
    /\ UNCHANGED <<session, nextId, sessVars, calls, loc, mu, lwpc, muRest>>

\* line 422: a.mu.Unlock()
MuStartUnlock(c) ==
    /\ lpc[c] = "start_unlock"
    /\ Release(c)
    /\ LGoto(c, "start_dial")
    /\ UNCHANGED <<session, nextId, sessVars, calls, loc, lwpc, muRest>>

\* lines 424-430, 439-442: the dial resolves; on an error, or with the
\* context cancelled, cancel() and close(sess.done)
MuStartDial(c) ==
    /\ lpc[c] = "start_dial"
    /\ \/ /\ cancelled' = [cancelled EXCEPT ![loc[c].sess] = TRUE]
          /\ done' = [done EXCEPT ![loc[c].sess] = @ + 1]
          /\ \E e \in {"dialfail"} \cup (IF cancelled[loc[c].sess] THEN {"canceled"} ELSE {}) :
                loc' = [loc EXCEPT ![c].err = e]
          /\ LGoto(c, "start_fail_lock")
       \/ /\ ~cancelled[loc[c].sess]
          /\ LGoto(c, "start_lock2")
          /\ UNCHANGED <<cancelled, done, loc>>
    /\ UNCHANGED <<session, nextId, sconn, calls, mu, lwpc, muRest>>

\* lines 431, 443: a.mu.Lock()
MuStartFailLock(c) ==
    /\ lpc[c] = "start_fail_lock"
    /\ Acquire(c)
    /\ LGoto(c, "start_fail_clear")
    /\ UNCHANGED <<session, nextId, sessVars, calls, loc, lwpc, muRest>>

\* lines 432-434, 444-446: if a.session == sess { a.session = nil }
MuStartFailClear(c) ==
    /\ lpc[c] = "start_fail_clear"
    /\ session' = ClearIfMine(loc[c].sess)
    /\ LGoto(c, "start_fail_unlock")
    /\ UNCHANGED <<nextId, sessVars, calls, loc, mu, lwpc, muRest>>

\* lines 435-436, 447-448: a.mu.Unlock(); return the error
MuStartFailUnlock(c) ==
    /\ lpc[c] = "start_fail_unlock"
    /\ Release(c)
    /\ LReturn(c, "StartCAN", loc[c].sess, loc[c].err)
    /\ UNCHANGED <<session, nextId, sessVars, calls, lwpc, muRest>>

\* line 451: a.mu.Lock()
MuStartLock2(c) ==
    /\ lpc[c] = "start_lock2"
    /\ Acquire(c)
    /\ LGoto(c, "start_setconn")
    /\ UNCHANGED <<session, nextId, sessVars, calls, loc, lwpc, muRest>>

\* lines 452-454: sess.conn, sess.rx, sess.tx
MuStartSetConn(c) ==
    /\ lpc[c] = "start_setconn"
    /\ sconn' = [sconn EXCEPT ![loc[c].sess] = TRUE]
    /\ LGoto(c, "start_unlock2")
    /\ UNCHANGED <<session, nextId, cancelled, done, calls, loc, mu, lwpc, muRest>>

\* line 455: a.mu.Unlock()
MuStartUnlock2(c) ==
    /\ lpc[c] = "start_unlock2"
    /\ Release(c)
    /\ LGoto(c, "start_go")
    /\ UNCHANGED <<session, nextId, sessVars, calls, loc, lwpc, muRest>>

\* lines 457-458: go a.receiveLoop(sess); return nil
MuStartGo(c) ==
    /\ lpc[c] = "start_go"
    /\ lwpc' = [lwpc EXCEPT ![loc[c].sess] = "recv"]
    /\ LReturn(c, "StartCAN", loc[c].sess, "ok")
    /\ UNCHANGED <<session, nextId, sessVars, calls, mu, muRest>>

\* line 517: StopCAN begins, a.mu.Lock()
MuStopLock(c) ==
    /\ lpc[c] = "idle" /\ calls < MaxCalls
    /\ calls' = calls + 1
    /\ Acquire(c)
    /\ LGoto(c, "stop_read")
    /\ UNCHANGED <<session, nextId, sessVars, loc, lwpc, muRest>>

\* lines 518-526: sess := a.session and its cancel, conn, done
MuStopRead(c) ==
    /\ lpc[c] = "stop_read"
    /\ loc' = [loc EXCEPT ![c] =
                 [NoLoc EXCEPT !.sess = session,
                               !.conn = IF session = Nil THEN FALSE ELSE sconn[session]]]
    /\ LGoto(c, "stop_unlock")
    /\ UNCHANGED <<session, nextId, sessVars, calls, mu, lwpc, muRest>>

\* lines 527-531: a.mu.Unlock(); return nil if sess == nil
MuStopUnlock(c) ==
    /\ lpc[c] = "stop_unlock"
    /\ Release(c)
    /\ IF loc[c].sess = Nil
       THEN LReturn(c, "StopCAN", Nil, "nil")
       ELSE LGoto(c, "stop_cancel") /\ UNCHANGED loc
    /\ UNCHANGED <<session, nextId, sessVars, calls, lwpc, muRest>>

\* lines 533-538: cancel(); conn.Close()
MuStopCancel(c) ==
    /\ lpc[c] = "stop_cancel"
    /\ cancelled' = [cancelled EXCEPT ![loc[c].sess] = TRUE]
    /\ LGoto(c, "stop_wait")
    /\ UNCHANGED <<session, nextId, sconn, done, calls, loc, mu, lwpc, muRest>>

\* line 539: <-done
MuStopWait(c) ==
    /\ lpc[c] = "stop_wait"
    /\ done[loc[c].sess] > 0
    /\ LGoto(c, "stop_lock2")
    /\ UNCHANGED <<session, nextId, sessVars, calls, loc, mu, lwpc, muRest>>

\* line 541: a.mu.Lock()
MuStopLock2(c) ==
    /\ lpc[c] = "stop_lock2"
    /\ Acquire(c)
    /\ LGoto(c, "stop_clear")
    /\ UNCHANGED <<session, nextId, sessVars, calls, loc, lwpc, muRest>>

\* lines 542-544: if a.session == sess { a.session = nil }
MuStopClear(c) ==
    /\ lpc[c] = "stop_clear"
    /\ session' = ClearIfMine(loc[c].sess)
    /\ LGoto(c, "stop_unlock2")
    /\ UNCHANGED <<nextId, sessVars, calls, loc, mu, lwpc, muRest>>

\* lines 545-546: a.mu.Unlock(); return nil
MuStopUnlock2(c) ==
    /\ lpc[c] = "stop_unlock2"
    /\ Release(c)
    /\ LReturn(c, "StopCAN", loc[c].sess, "nil")
    /\ UNCHANGED <<session, nextId, sessVars, calls, lwpc, muRest>>

\* lines 551-553: SendFrame returns on a payload that is too long
MuSendTooLong(c) ==
    /\ lpc[c] = "idle" /\ calls < MaxCalls
    /\ calls' = calls + 1
    /\ LReturn(c, "SendFrame", Nil, "TooLong")
    /\ UNCHANGED <<session, nextId, sessVars, mu, lwpc, muRest>>

\* line 555: a.mu.Lock()
MuSendLock(c) ==
    /\ lpc[c] = "idle" /\ calls < MaxCalls
    /\ calls' = calls + 1
    /\ Acquire(c)
    /\ LGoto(c, "send_read")
    /\ UNCHANGED <<session, nextId, sessVars, loc, lwpc, muRest>>

\* lines 556-559: tx = a.session.tx if a.session # nil
MuSendRead(c) ==
    /\ lpc[c] = "send_read"
    /\ loc' = [loc EXCEPT ![c] = [NoLoc EXCEPT !.sess = CurrentTx]]
    /\ LGoto(c, "send_unlock")
    /\ UNCHANGED <<session, nextId, sessVars, calls, mu, lwpc, muRest>>

\* lines 560-576: a.mu.Unlock(); return if tx == nil or the frame is invalid
MuSendUnlock(c) ==
    /\ lpc[c] = "send_unlock"
    /\ Release(c)
    /\ \/ loc[c].sess = Nil /\ LReturn(c, "SendFrame", Nil, "NotStarted")
       \/ loc[c].sess # Nil /\ LReturn(c, "SendFrame", loc[c].sess, "InvalidFrame")
       \/ loc[c].sess # Nil /\ LGoto(c, "send_tx") /\ UNCHANGED loc
    /\ UNCHANGED <<session, nextId, sessVars, calls, lwpc, muRest>>

\* lines 580-584: tx.TransmitFrame, emitError on failure, return
MuSendTransmit(c) ==
    /\ lpc[c] = "send_tx"
    /\ \E r \in {"ok", "TransmitError"} : LReturn(c, "SendFrame", loc[c].sess, r)
    /\ UNCHANGED <<session, nextId, sessVars, calls, mu, lwpc, muRest>>

\* lines 474-512: sess.rx.Receive() returns false, or the loop returns
MuReceiveEnds(s) ==
    /\ lwpc[s] = "recv"
    /\ lwpc' = [lwpc EXCEPT ![s] = "defer_done"]
    /\ UNCHANGED <<session, nextId, sessVars, calls, loc, mu, lpc, muRest>>
    /\ ret' = NoRet

\* lines 463-466 (deferred): close(sess.done); sess.conn.Close()
MuDeferDone(s) ==
    /\ lwpc[s] = "defer_done"
    /\ done' = [done EXCEPT ![s] = @ + 1]
    /\ lwpc' = [lwpc EXCEPT ![s] = "defer_lock"]
    /\ UNCHANGED <<session, nextId, cancelled, sconn, calls, loc, mu, lpc, muRest>>
    /\ ret' = NoRet

\* line 467 (deferred): a.mu.Lock()
MuDeferLock(s) ==
    /\ lwpc[s] = "defer_lock"
    /\ Acquire(Worker(s))
    /\ lwpc' = [lwpc EXCEPT ![s] = "defer_clear"]
    /\ UNCHANGED <<session, nextId, sessVars, calls, loc, lpc, muRest>>
    /\ ret' = NoRet

\* lines 468-470 (deferred): if a.session == sess { a.session = nil }
MuDeferClear(s) ==
    /\ lwpc[s] = "defer_clear"
    /\ session' = ClearIfMine(s)
    /\ lwpc' = [lwpc EXCEPT ![s] = "defer_unlock"]
    /\ UNCHANGED <<nextId, sessVars, calls, loc, mu, lpc, muRest>>
    /\ ret' = NoRet

\* line 471 (deferred): a.mu.Unlock()
MuDeferUnlock(s) ==
    /\ lwpc[s] = "defer_unlock"
    /\ Release(Worker(s))
    /\ lwpc' = [lwpc EXCEPT ![s] = "exited"]
    /\ UNCHANGED <<session, nextId, sessVars, calls, loc, lpc, muRest>>
    /\ ret' = NoRet

MuStartCAN(c) ==
    \/ MuStartLock(c) \/ MuStartCheck(c) \/ MuStartUnlockBusy(c)
    \/ MuStartUnlock(c) \/ MuStartDial(c) \/ MuStartFailLock(c)
    \/ MuStartFailClear(c) \/ MuStartFailUnlock(c) \/ MuStartLock2(c)
    \/ MuStartSetConn(c) \/ MuStartUnlock2(c) \/ MuStartGo(c)

MuStopCAN(c) ==
    \/ MuStopLock(c) \/ MuStopRead(c) \/ MuStopUnlock(c) \/ MuStopCancel(c)
    \/ MuStopWait(c) \/ MuStopLock2(c) \/ MuStopClear(c) \/ MuStopUnlock2(c)

MuSendFrame(c) ==
    \/ MuSendTooLong(c) \/ MuSendLock(c) \/ MuSendRead(c)
    \/ MuSendUnlock(c) \/ MuSendTransmit(c)

MuReceiveLoop(s) ==
    \/ MuReceiveEnds(s) \/ MuDeferDone(s) \/ MuDeferLock(s)
    \/ MuDeferClear(s) \/ MuDeferUnlock(s)

NextLock ==
    \/ \E c \in Callers : MuStartCAN(c) \/ MuStopCAN(c) \/ MuSendFrame(c)
    \/ \E s \in Sessions : MuReceiveLoop(s)

SpecLock == Init /\ [][NextLock]_vars

\* ------------------------------------------------------------------ claims
StartPcs == {"dial", "dialerr", "dialerr_emit", "ctxchk", "fail_connclose",
             "fail_cancel", "fail_done", "fail_clear", "install", "launch"}
LoopPcs == {"recv", "check", "errchk", "emiterr", "emitframe"}
DeferPcs == {"defer_done", "defer_close", "defer_clear"}

\* the session's dial succeeded and its worker is inside the receive loop
Active(s) == conn[s] # "nil" /\ wpc[s] \in LoopPcs

\* C1: at most one session is active at any time, an active session is the
\* one in the slot, and StartCAN returns success only while its own session
\* is the one in the slot.
C1_SingleActiveSession ==
    /\ \A s, t \in Sessions : Active(s) /\ Active(t) => s = t
    /\ \A s \in Sessions : Active(s) => session = s
    /\ (ret.op = "StartCAN" /\ ret.val = "ok") => session = ret.sess

\* a second session is active while the worker of the first is still running
\* its deferred cleanup
C1_Witness ==
    \E s, t \in Sessions : s # t /\ Active(t) /\ wpc[s] \in DeferPcs

\* C2 (as claimed): a StopCAN waiting on the completion signal never depends
\* on a frame arriving: it has cancelled the session, and a worker blocked in
\* Receive is blocked on a transport that has been closed.
C2_StopNeedsNoFrame ==
    \A c \in Callers :
        pc[c] = "stop_wait" =>
            /\ cancelled[loc[c].sess]
            /\ wpc[loc[c].sess] = "recv" => conn[loc[c].sess] = "closed"

\* C3 (as claimed): for a session captured by a StopCAN while its dial was
\* unresolved, no worker is launched, its StartCAN does not return success,
\* and it is not in the slot once that StopCAN has returned.
C3_StopDuringDial ==
    \A s \in early :
        /\ wpc[s] = "none"
        /\ ~(ret.op = "StartCAN" /\ ret.sess = s /\ ret.val = "ok")
        /\ (ret.op = "StopCAN" /\ ret.sess = s) => session # s

\* the state reached when a StopCAN that found the slot empty has returned
\* after an earlier StopCAN tore a launched session down
C4_Witness ==
    /\ ret = [op |-> "StopCAN", sess |-> Nil, val |-> "nil"]
    /\ session = Nil
    /\ \E s \in Sessions : cancelled[s] /\ wpc[s] = "exited"

\* C4: StopCAN never returns an error; on an empty slot it returns at once and
\* changes nothing (slot, events, contexts, connections, completion signals,
\* workers); no StopCAN step emits an event or transmits, and a StopCAN step
\* on a session that is already cancelled and closed, or no longer in the
\* slot, leaves contexts, connections and the slot as they are.
C4_StopIdempotent ==
    [][\A c \in Callers : StopCAN(c) =>
          /\ ret'.op = "StopCAN" => ret'.val = "nil"
          /\ UNCHANGED <<events, txcount, done, sconn, workerVars, nextId>>
          /\ (pc[c] = "idle" /\ session = Nil) =>
                 pc'[c] = "idle" /\ UNCHANGED <<session, sessVars>>
          /\ (pc[c] # "idle" /\ cancelled[loc[c].sess] /\ conn[loc[c].sess] = "closed") =>
                 UNCHANGED <<cancelled, conn>>
          /\ (pc[c] # "idle" /\ session # loc[c].sess) => UNCHANGED session
      ]_vars

\* the frame ids of the frame events of session s, in emission order
RECURSIVE FrameEventsOf(_, _)
FrameEventsOf(ev, s) ==
    IF ev = <<>> THEN <<>>
    ELSE IF Head(ev)[1] = "frame" /\ Head(ev)[2] = s
         THEN <<Head(ev)[3]>> \o FrameEventsOf(Tail(ev), s)
         ELSE FrameEventsOf(Tail(ev), s)

\* the units behind the events the worker of session s emitted, in order
RECURSIVE WorkerEventsOf(_, _)
WorkerEventsOf(ev, s) ==
    IF ev = <<>> THEN <<>>
    ELSE IF Head(ev)[2] = s /\ Head(ev)[1] = "frame"
         THEN <<<<"data", Head(ev)[3]>>>> \o WorkerEventsOf(Tail(ev), s)
         ELSE IF Head(ev)[2] = s /\ Head(ev)[3] = "errframe"
              THEN <<<<"ef", 0>>>> \o WorkerEventsOf(Tail(ev), s)
              ELSE WorkerEventsOf(Tail(ev), s)

\* the ids of the data frames of a receive log; live: only those delivered
\* while the session was not cancelled
RECURSIVE DataIds(_, _)
DataIds(log, live) ==
    IF log = <<>> THEN <<>>
    ELSE IF Head(log)[1][1] = "data" /\ (live => Head(log)[2])
         THEN <<Head(log)[1][2]>> \o DataIds(Tail(log), live)
         ELSE DataIds(Tail(log), live)

RECURSIVE UnitsOf(_)
UnitsOf(log) == IF log = <<>> THEN <<>> ELSE <<Head(log)[1]>> \o UnitsOf(Tail(log))

RECURSIVE IsSubseq(_, _)
IsSubseq(a, b) ==
    IF a = <<>> THEN TRUE
    ELSE IF b = <<>> THEN FALSE
    ELSE IF Head(a) = Head(b) THEN IsSubseq(Tail(a), Tail(b))
    ELSE IsSubseq(a, Tail(b))

Front(q) == SubSeq(q, 1, Len(q) - 1)

\* the worker of s is not holding a received unit it has yet to handle
Settled(s) == wpc[s] \notin {"check", "errchk", "emiterr", "emitframe"}

\* C5 (as claimed): once the worker has handled what it received, the frame
\* events of a session are exactly the data frames delivered to its worker
\* while the session was not cancelled.
C5_AllLiveFramesEmitted ==
    \A s \in Sessions :
        Settled(s) => FrameEventsOf(events, s) = DataIds(rxlog[s], TRUE)

\* C5 (amended): the frame events of a session are, in order, the data frames
\* delivered to its worker, except that the last delivered unit is missing
\* while the worker still handles it or when the worker found the session
\* cancelled; frame and error-frame events together keep the arrival order.
C5_FramesInArrivalOrder ==
    \A s \in Sessions :
        /\ \/ FrameEventsOf(events, s) = DataIds(rxlog[s], FALSE)
           \/ /\ rxlog[s] # <<>>
              /\ FrameEventsOf(events, s) = DataIds(Front(rxlog[s]), FALSE)
              /\ ~Settled(s) \/ cancelled[s]
        /\ IsSubseq(WorkerEventsOf(events, s), UnitsOf(rxlog[s]))

\* one session has emitted two frames with different ids and its worker holds no unit
C5_Witness ==
    \E s \in Sessions :
        /\ Len(FrameEventsOf(events, s)) >= 2
        /\ FrameEventsOf(events, s)[1] # FrameEventsOf(events, s)[2]
        /\ Settled(s)

\* C6: when a StopCAN that captured a launched session returns, the slot does
\* not hold that session; a session that left the slot never comes back (only
\* a newly constructed session is installed); and StartCAN is rejected only
\* when the slot is occupied, so it installs whenever the slot is empty.
C6_SlotFreeAfterStop ==
    /\ []((ret.op = "StopCAN" /\ ret.sess # Nil) => session # ret.sess)
    /\ [][(session' # session /\ session' # Nil) =>
            (session = Nil /\ session' = nextId' /\ nextId' = nextId + 1)]_vars
    /\ [][\A c \in Callers : (StartCAN(c) /\ pc[c] = "idle") =>
            IF session = Nil THEN session' # Nil /\ pc'[c] = "dial"
                             ELSE ret'.val = "AlreadyActive"]_vars

\* a StopCAN on a launched session has just returned, the slot is empty and a
\* further call can be made
C6_Witness ==
    /\ ret.op = "StopCAN" /\ ret.sess # Nil
    /\ wpc[ret.sess] # "none"
    /\ session = Nil
    /\ calls < MaxCalls

\* the step is a slot-clearing step (lines 431-435, 443-447, 467-471, 541-545)
\* made on behalf of session s
ClearStepOf(s) ==
    \/ \E c \in Callers : /\ pc[c] \in {"fail_clear", "stop_clear"}
                           /\ loc[c].sess = s
                           /\ pc'[c] = "idle"
    \/ wpc[s] = "defer_clear" /\ wpc'[s] = "exited"

\* C7: the slot becomes empty only in a clearing step made on behalf of the
\* session it held, and a clearing step made on behalf of another session
\* leaves the slot as it is.
C7_ClearOnlyOwnSession ==
    [][/\ (session # Nil /\ session' = Nil) => ClearStepOf(session)
       /\ \A s \in Sessions : (ClearStepOf(s) /\ session # s) => session' = session
      ]_vars

\* a StopCAN that captured an older session has just run its clearing step
\* while a newer session is installed
C7_Witness ==
    /\ ret.op = "StopCAN" /\ ret.sess # Nil
    /\ session # Nil /\ session # ret.sess

\* C8: a StartCAN that finds the slot occupied returns AlreadyActive in that
\* step, without dialing and without changing the slot, the sessions or the
\* events; a StartCAN that finds it empty installs a session no other call
\* holds; two calls inside StartCAN never hold the same session.
C8_StartExclusive ==
    /\ [][\A c \in Callers : (StartCAN(c) /\ pc[c] = "idle") =>
            IF session # Nil
              THEN /\ pc'[c] = "idle"
                   /\ ret' = [op |-> "StartCAN", sess |-> Nil, val |-> "AlreadyActive"]
                   /\ UNCHANGED <<session, nextId, sessVars, workerVars, events>>
              ELSE /\ pc'[c] = "dial"
                   /\ session' = loc'[c].sess
                   /\ \A d \in Callers \ {c} : loc[d].sess # session'
                   /\ UNCHANGED events]_vars
    /\ [](\A c, d \in Callers :
            (c # d /\ pc[c] \in StartPcs /\ pc[d] \in StartPcs) => loc[c].sess # loc[d].sess)

\* a StartCAN has just been rejected because of a session whose dial is
\* still in flight in a concurrent StartCAN
C8_Witness ==
    /\ ret = [op |-> "StartCAN", sess |-> Nil, val |-> "AlreadyActive"]
    /\ session # Nil
    /\ \E c \in Callers : pc[c] = "dial" /\ loc[c].sess = session

\* caller c starts SendFrame(id, data, extended) with len(data) = len
SendFrameCall(c, id, len, extended) ==
    \/ SendTooLong(c, id, len, extended)
    \/ SendNotStarted(c, id, len, extended)
    \/ SendInvalid(c, id, len, extended)
    \/ SendReady(c, id, len, extended)

\* C9: SendFrame with more than 8 bytes returns the size error in its first
\* step, whatever the slot holds, without transmitting or emitting.
C9_TooLongRejected ==
    [][\A c \in Callers, id \in SendIds, len \in SendLens, extended \in BOOLEAN :
          (len > 8 /\ SendFrameCall(c, id, len, extended)) =>
              /\ pc'[c] = "idle"
              /\ ret'.op = "SendFrame" /\ ret'.val = "TooLong"
              /\ UNCHANGED <<txcount, events, session, sessVars>>
      ]_vars

\* the size error has just been returned while a session with a transmitter
\* is installed
C9_Witness ==
    /\ ret.op = "SendFrame" /\ ret.val = "TooLong"
    /\ session # Nil /\ sconn[session] /\ conn[session] = "open"

\* C10: SendFrame with at most 8 bytes, started when the slot is empty or
\* holds a session whose transmitter is not set, returns NotStarted in its
\* first step without transmitting or emitting.
C10_NotStarted ==
    [][\A c \in Callers, id \in SendIds, len \in SendLens, extended \in BOOLEAN :
          (/\ len <= 8
           /\ session = Nil \/ ~sconn[session]
           /\ SendFrameCall(c, id, len, extended)) =>
              /\ pc'[c] = "idle"
              /\ ret'.op = "SendFrame" /\ ret'.val = "NotStarted"
              /\ UNCHANGED <<txcount, events, session, sessVars>>
      ]_vars

\* NotStarted has just been returned while a session whose dial has not
\* completed is installed
C10_Witness ==
    /\ ret.op = "SendFrame" /\ ret.val = "NotStarted"
    /\ session # Nil /\ ~sconn[session]

\* C11: with a session that has its transmitter, SendFrame with an identifier
\* wider than 11 bits (extended = false) or wider than 29 bits (extended =
\* true) returns the validation error in its first step: TransmitFrame is not
\* invoked and no event is emitted.
C11_InvalidIdRejected ==
    [][\A c \in Callers, id \in SendIds, len \in SendLens, extended \in BOOLEAN :
          (/\ len <= 8
           /\ session # Nil
           /\ sconn[session]
           /\ IF extended THEN id >= 2^29 ELSE id >= 2^11
           /\ SendFrameCall(c, id, len, extended)) =>
              /\ pc'[c] = "idle"
              /\ ret'.op = "SendFrame" /\ ret'.val = "InvalidFrame"
              /\ UNCHANGED <<txcount, events, session, sessVars>>
      ]_vars

\* the validation error has just been returned while the installed session
\* has an open transport and a running worker
C11_Witness ==
    /\ ret.op = "SendFrame" /\ ret.val = "InvalidFrame"
    /\ session # Nil /\ sconn[session] /\ conn[session] = "open"
    /\ wpc[session] = "recv"

FailPcs == {"dialerr", "dialerr_emit", "fail_connclose", "fail_cancel",
            "fail_done", "fail_clear"}
ExitPcs == {"after", "emitrecverr"} \cup DeferPcs

\* the StartCAN of session s has failed and returned (no worker was launched)
StartFailed(s) ==
    /\ done[s] > 0
    /\ wpc[s] = "none"
    /\ \A c \in Callers : pc[c] \in FailPcs => loc[c].sess # s

\* C12: the failure path of StartCAN and the exit path of the worker never
\* wait (their next step is always possible), and once they are through, the
\* completion signal of the session has fired and the slot does not hold the
\* session, which therefore cannot cause an AlreadyActive.
C12_FaultPathsFreeSlot ==
    /\ \A c \in Callers : pc[c] \in FailPcs => ENABLED StartCAN(c)
    /\ \A s \in Sessions : wpc[s] \in ExitPcs => ENABLED receiveLoop(s)
    /\ (ret.op = "StartCAN" /\ ret.val \in {"dialfail", "canceled"}) =>
           session # ret.sess /\ done[ret.sess] > 0
    /\ \A s \in Sessions :
           (StartFailed(s) \/ wpc[s] = "exited") => session # s /\ done[s] > 0

\* one session's dial has failed and its StartCAN has returned; the worker of
\* another has exited on its own, without a StopCAN; the slot is empty
C12_Witness ==
    /\ session = Nil
    /\ \E s, t \in Sessions :
          /\ StartFailed(s) /\ ~sconn[s] /\ conn[s] = "nil"
          /\ wpc[t] = "exited" /\ ~cancelled[t]

\* the number of events of kind msg about session s
RECURSIVE ErrorCount(_, _, _)
ErrorCount(ev, s, msg) ==
    IF ev = <<>> THEN 0
    ELSE (IF Head(ev) = <<"error", s, msg>> THEN 1 ELSE 0) + ErrorCount(Tail(ev), s, msg)

\* C13 (as claimed): when StartCAN returns a dial failure that is not the
\* cancellation error, exactly one error event for it has been emitted.
C13_DialFailureAlwaysReported ==
    (ret.op = "StartCAN" /\ ret.val = "dialfail") =>
        ErrorCount(events, ret.sess, "dial") = 1

\* C13 (amended): a dial failure is emitted exactly once when the check
\* after the dial (line 426) finds the session not cancelled and not at all
\* when it finds it cancelled; a StartCAN that returns the cancellation error
\* has emitted nothing; no session ever has more than one dial error event.
C13_DialFailureReporting ==
    /\ [][\A c \in Callers : (pc[c] = "dialerr" /\ pc'[c] # "dialerr") =>
            /\ pc'[c] = IF cancelled[loc[c].sess] THEN "fail_cancel" ELSE "dialerr_emit"
            /\ events' = events]_vars
    /\ [][\A c \in Callers : (pc[c] = "dialerr_emit" /\ pc'[c] # "dialerr_emit") =>
            /\ pc'[c] = "fail_cancel"
            /\ events' = Append(events, <<"error", loc[c].sess, "dial">>)]_vars
    /\ [](\A s \in Sessions : ErrorCount(events, s, "dial") <= 1)
    /\ []((ret.op = "StartCAN" /\ ret.val = "canceled") =>
            ErrorCount(events, ret.sess, "dial") = 0)
    /\ [](\A c \in Callers : pc[c] \in {"fail_cancel", "fail_done", "fail_clear"} =>
            (loc[c].err = "canceled" => ErrorCount(events, loc[c].sess, "dial") = 0))

\* a later StartCAN has just succeeded after an earlier one failed and
\* emitted its dial error, which is still the only event
C13_Witness ==
    /\ ret.op = "StartCAN" /\ ret.val = "ok"
    /\ \E s \in Sessions : s # ret.sess /\ events = <<<<"error", s, "dial">>>>

\* C14 (as claimed): once a session is cancelled, no step emits an error
\* event for a fault the shutdown caused: not StartCAN for a cancelled dial,
\* not the worker for a receive that failed on the closed transport, not
\* SendFrame for a transmit that failed on the closed transport.
C14_ShutdownFaultsSilent ==
    [][/\ \A c \in Callers :
            (/\ pc[c] \in {"dialerr", "dialerr_emit", "send_emit"}
             /\ pc'[c] # pc[c]
             /\ cancelled[loc[c].sess]
             /\ loc[c].err \in {"canceled", "closed"}) => events' = events
       /\ \A s \in Sessions :
            (/\ wpc[s] = "after"
             /\ wpc'[s] # wpc[s]
             /\ cancelled[s]
             /\ cur[s] = <<"end", "closed">>) =>
                (events' = events /\ wpc'[s] # "emitrecverr")
      ]_vars

\* the number of error frames in a receive log; live: only those delivered
\* while the session was not cancelled
RECURSIVE EfCount(_, _)
EfCount(log, live) ==
    IF log = <<>> THEN 0
    ELSE (IF Head(log)[1][1] = "ef" /\ (live => Head(log)[2]) THEN 1 ELSE 0)
         + EfCount(Tail(log), live)

\* C15 (as claimed): once the worker has handled what it received, every
\* error frame delivered while the session was not cancelled has produced
\* exactly one error event.
C15_EveryLiveErrorFrameReported ==
    \A s \in Sessions :
        Settled(s) => ErrorCount(events, s, "errframe") = EfCount(rxlog[s], TRUE)

\* C15 (amended): an error frame the worker finds not cancelled at its checks
\* (lines 475 and 480) produces exactly one error event, one found cancelled
\* produces none; handling an error frame never ends the loop (after line 480
\* the worker is back in Receive) and the session stays in the slot with its
\* completion signal unfired; while a session is not cancelled, the events of
\* its worker are exactly the units delivered, error frames and the data
\* frames after them included.
C15_ErrorFrameKeepsSession ==
    /\ [][\A s \in Sessions :
            /\ (wpc[s] = "check" /\ cur[s][1] = "ef" /\ wpc'[s] # "check") =>
                  /\ wpc'[s] = IF cancelled[s] THEN "defer_done" ELSE "errchk"
                  /\ events' = events
            /\ (wpc[s] = "errchk" /\ wpc'[s] # "errchk") =>
                  /\ wpc'[s] = IF cancelled[s] THEN "recv" ELSE "emiterr"
                  /\ events' = events
            /\ (wpc[s] = "emiterr" /\ wpc'[s] # "emiterr") =>
                  /\ wpc'[s] = "recv"
                  /\ events' = Append(events, <<"error", s, "errframe">>)
         ]_vars
    /\ [](\A s \in Sessions :
            /\ wpc[s] \in {"errchk", "emiterr"} => (session = s /\ done[s] = 0)
            /\ ErrorCount(events, s, "errframe") <= EfCount(rxlog[s], FALSE)
            /\ (Settled(s) /\ ~cancelled[s]) =>
                  WorkerEventsOf(events, s) = UnitsOf(rxlog[s]))

\* the worker of a session that is not cancelled has emitted an error frame
\* and then a data frame, and is back in Receive with the session in the slot
C15_Witness ==
    \E s \in Sessions :
        /\ WorkerEventsOf(events, s) = <<<<"ef", 0>>, <<"data", 256>>>>
        /\ wpc[s] = "recv" /\ session = s /\ ~cancelled[s]

\* C16: a step that returns AlreadyActive or InvalidFrame emits nothing; a
\* failed TransmitFrame is followed by exactly one step that appends one
\* error event for it and returns the transmit error, and the transmit error
\* is returned by no other step.
C16_LocalFaultsReturnedOnly ==
    [][/\ ret'.val \in {"AlreadyActive", "InvalidFrame"} => events' = events
       /\ \A c \in Callers :
            /\ (pc[c] = "send_tx" /\ pc'[c] # "send_tx") =>
                  /\ events' = events
                  /\ txcount' = txcount + 1
                  /\ pc'[c] = "send_emit" \/ ret'.val = "ok"
            /\ (pc[c] = "send_emit" /\ pc'[c] # "send_emit") =>
                  /\ events' = Append(events, <<"error", loc[c].sess, "transmit">>)
                  /\ ret' = [op |-> "SendFrame", sess |-> loc[c].sess, val |-> "TransmitError"]
       /\ ret'.val = "TransmitError" => \E c \in Callers : pc[c] = "send_emit" /\ pc'[c] = "idle"
      ]_vars

\* SendFrame has just returned the transmit error of a transmit that failed
\* on an open transport, and the error event is the last one emitted
C16_Witness ==
    /\ ret.op = "SendFrame" /\ ret.val = "TransmitError"
    /\ conn[ret.sess] = "open"
    /\ events # <<>>
    /\ events[Len(events)] = <<"error", ret.sess, "transmit">>

\* C17: when Receive has ended, the worker goes on to emit exactly one error
\* event if the end is a fault other than "closed" and the session is not
\* cancelled at line 510, and emits nothing otherwise (cancelled, transport
\* closed, end of stream); a receive error event is emitted by no other step
\* and at most once per session; from there the worker always proceeds
\* through its deferred cleanup, and a session with a receive error event has
\* left the loop.
C17_ReceiveFaultReported ==
    /\ [][\A s \in Sessions :
            /\ (wpc[s] = "after" /\ wpc'[s] # "after") =>
                  /\ wpc'[s] = IF cur[s] = <<"end", "fault">> /\ ~cancelled[s]
                               THEN "emitrecverr" ELSE "defer_done"
                  /\ events' = events
            /\ (wpc[s] = "emitrecverr" /\ wpc'[s] # "emitrecverr") =>
                  /\ wpc'[s] = "defer_done"
                  /\ events' = Append(events, <<"error", s, "receive">>)
            /\ ErrorCount(events', s, "receive") # ErrorCount(events, s, "receive") =>
                  wpc[s] = "emitrecverr"
         ]_vars
    /\ [](\A s \in Sessions :
            /\ ErrorCount(events, s, "receive") <= 1
            /\ ErrorCount(events, s, "receive") = 1 => wpc[s] \in DeferPcs \cup {"exited"}
            /\ wpc[s] \in ExitPcs => ENABLED receiveLoop(s))

\* a worker has exited after reporting a receive fault, and another has
\* exited on a closed transport without reporting anything
C17_Witness ==
    \E s, t \in Sessions :
        /\ wpc[s] = "exited" /\ ErrorCount(events, s, "receive") = 1
        /\ wpc[t] = "exited" /\ cancelled[t] /\ ErrorCount(events, t, "receive") = 0

\* the event is emitted by the receive worker of session s
WorkerEvent(e, s) ==
    /\ e[2] = s
    /\ e[1] = "frame" \/ e[3] \in {"errframe", "receive"}

\* C18: every frame event and every worker-originated error event of a
\* session is emitted while its completion signal has not fired, the signal
\* once fired stays fired, and a StopCAN that captured a session returns only
\* after that session's signal has fired; hence nothing of the session's
\* worker is emitted after such a StopCAN has returned.
C18_NoWorkerEventAfterStop ==
    /\ [][\A s \in Sessions :
            /\ done'[s] >= done[s]
            /\ (events' # events /\ WorkerEvent(events'[Len(events')], s)) =>
                  /\ events' = Append(events, events'[Len(events')])
                  /\ done[s] = 0 /\ done'[s] = 0
                  /\ ~(ret.op = "StopCAN" /\ ret.sess = s)
         ]_vars
    /\ [](ret.op = "StopCAN" /\ ret.sess # Nil => done[ret.sess] > 0)

\* a StopCAN returns for a session whose worker has emitted frame events
C18_Witness ==
    /\ ret.op = "StopCAN" /\ ret.sess # Nil
    /\ Len(FrameEventsOf(events, ret.sess)) = MaxFrames
    /\ wpc[ret.sess] \in {"defer_close", "defer_clear", "exited"}

\* C19: the completion signal of a session is fired at most once: only by
\* the step at line 463 of its worker or by the step at line 430/442 of its
\* failing StartCAN, never when already fired, and a session never has both
\* a worker and a StartCAN on the failure path; it has fired whenever the
\* worker is past line 463 and whenever a StartCAN has returned a failure
\* for the session.
C19_DoneFiredOnce ==
    /\ [][\A s \in Sessions :
            done'[s] # done[s] =>
               /\ done[s] = 0 /\ done'[s] = 1
               /\ \/ wpc[s] = "defer_done" /\ wpc'[s] = "defer_close"
                  \/ \E c \in Callers : /\ pc[c] = "fail_done" /\ loc[c].sess = s
                                        /\ pc'[c] = "fail_clear"
         ]_vars
    /\ [](\A s \in Sessions :
            /\ done[s] <= 1
            /\ wpc[s] # "none" => \A c \in Callers : pc[c] \in FailPcs => loc[c].sess # s
            /\ wpc[s] \in {"defer_close", "defer_clear", "exited"} => done[s] = 1
            /\ \A c \in Callers :
                  (pc[c] = "fail_clear" /\ loc[c].sess = s) => done[s] = 1)
    /\ []((ret.op = "StartCAN" /\ ret.val \in {"dialfail", "canceled"}) =>
             done[ret.sess] = 1)

\* one session's worker has exited and another session's StartCAN has
\* failed, each with the signal fired once
C19_Witness ==
    \E s, t \in Sessions :
        /\ wpc[s] = "exited" /\ done[s] = 1
        /\ StartFailed(t) /\ done[t] = 1

\* C20 (as claimed): once the cancellation of a session has been requested,
\* no transport is installed in it and no receive worker is launched for it
\* any more, and the slot never takes a session other than a fresh one.
C20_ForwardOnly ==
    [][\A s \in Sessions :
         /\ cancelled[s] =>
               /\ sconn'[s] = sconn[s]
               /\ wpc[s] = "none" => wpc'[s] = "none"
         /\ (session' = s /\ session # s) =>
               /\ s = nextId'
               /\ ~cancelled[s] /\ done[s] = 0 /\ wpc[s] = "none"
      ]_vars

\* C21 (as claimed): whenever the completion signal of a session has fired
\* and its dial had succeeded, its transport is closed; and when a StopCAN
\* that captured a session returns, the session's worker (if any) has exited
\* and its transport (if any) is closed.
C21_ClosedBeforeDone ==
    /\ \A s \in Sessions :
          (done[s] > 0 /\ conn[s] # "nil") => conn[s] = "closed"
    /\ (ret.op = "StopCAN" /\ ret.sess # Nil) =>
          /\ wpc[ret.sess] \in {"none", "exited"}
          /\ conn[ret.sess] \in {"nil", "closed"}

\* positions of StopCAN after it has captured the session's fields
StopPcs == {"stop_cancel", "stop_close", "stop_wait", "stop_clear"}
\* positions of SendFrame after it has read the session's transmitter
SendPcs == {"send_tx", "send_emit"}

\* C22 (as claimed): once a session has been constructed and installed, its
\* interface name and its transport and transmitter fields never change, and
\* a StopCAN holds the same transport as the session it captured.
C22_FieldsNeverChange ==
    /\ [][\A s \in Sessions :
            s <= nextId => (iface'[s] = iface[s] /\ sconn'[s] = sconn[s])]_vars
    /\ [](\A c \in Callers :
            pc[c] \in StopPcs => loc[c].conn = sconn[loc[c].sess])

\* C22 (amended): the interface name of an installed session never changes;
\* its transport and transmitter fields are written once, after the
\* installation, by the step at lines 451-455 of the StartCAN that
\* constructed it, before the worker exists, and never change afterwards;
\* the worker and a SendFrame past line 560 work on a session whose fields
\* are set, and a StopCAN holds either no transport or the session's.
C22_FieldsSetOnce ==
    /\ [][\A s \in Sessions :
            /\ s <= nextId => iface'[s] = iface[s]
            /\ sconn[s] => sconn'[s]
            /\ sconn'[s] # sconn[s] =>
                  /\ \E c \in Callers : /\ pc[c] = "install" /\ loc[c].sess = s
                                        /\ pc'[c] = "launch"
                  /\ session = s /\ conn[s] = "open" /\ wpc[s] = "none"
         ]_vars
    /\ [](\A s \in Sessions :
            /\ wpc[s] # "none" => sconn[s]
            /\ sconn[s] => (s <= nextId /\ conn[s] # "nil")
            /\ \A c \in Callers :
                  /\ (pc[c] \in SendPcs /\ loc[c].sess = s) => sconn[s]
                  /\ (pc[c] \in StopPcs /\ loc[c].sess = s /\ loc[c].conn) => sconn[s])

\* a StopCAN that captured the session before its transport was stored is
\* still in progress while the worker and a SendFrame use that transport
C22_Witness ==
    \E c, d \in Callers :
        /\ pc[c] \in StopPcs /\ ~loc[c].conn
        /\ sconn[loc[c].sess] /\ wpc[loc[c].sess] \in LoopPcs
        /\ pc[d] \in SendPcs /\ loc[d].sess = loc[c].sess

\* the name consists of white space only (or is empty)
IsBlank(name) == \A i \in 1..Len(name) : name[i] \in Space

\* the part of a non-blank name from its first to its last non-space character
Core(name) ==
    LET ix == {i \in 1..Len(name) : name[i] \notin Space}
        lo == CHOOSE i \in ix : \A j \in ix : i <= j
        hi == CHOOSE i \in ix : \A j \in ix : i >= j
    IN  SubSeq(name, lo, hi)

\* C24: the name StartCAN constructs a session with is the fallback vcan0
\* for a blank given name and the given name without its leading and
\* trailing white space otherwise; the name of a constructed session never
\* changes; every frame event carries the name of the session whose worker
\* emitted it.
C24_InterfaceName ==
    /\ [][/\ \A s \in Sessions : s <= nextId => iface'[s] = iface[s]
          /\ nextId' # nextId =>
                \E name \in RawNames :
                    iface'[nextId'] = IF IsBlank(name) THEN Fallback ELSE Core(name)
         ]_vars
    /\ [](/\ \A name \in RawNames :
                IfaceOf(name) = IF IsBlank(name) THEN Fallback ELSE Core(name)
          /\ \A s \in Sessions : s > nextId => iface[s] = NoName
          /\ \A i \in 1..Len(events) :
                events[i][1] = "frame" => events[i][4] = iface[events[i][2]])

\* one session under the fallback name and one under a trimmed given name
\* have each emitted a frame event
C24_Witness ==
    \E i, j \in 1..Len(events) :
        /\ events[i][1] = "frame" /\ events[i][4] = Fallback
        /\ events[j][1] = "frame" /\ events[j][4] = <<"c", " ", "0">>

\* C25: the displayed frame list is exactly the latest frame events, at most
\* MaxShownFrames of them, newest first: each frame event is prepended and
\* what lies beyond the limit is dropped; the error list holds at most
\* MaxShownErrors messages; an incoming message equal to the head of the
\* list leaves the list as it is, any other is prepended.
C25_ListsBounded ==
    /\ [](/\ Len(frames) = (IF arrived < MaxShownFrames THEN arrived ELSE MaxShownFrames)
          /\ \A i \in 1..Len(frames) : frames[i] = arrived - i + 1
          /\ Len(errors) <= MaxShownErrors
          /\ \A i \in 1..(Len(errors) - 1) : errors[i] # errors[i + 1])
    /\ [][/\ arrived' # arrived =>
                /\ frames'[1] = arrived'
                /\ \A i \in 2..Len(frames') : frames'[i] = frames[i - 1]
                /\ Len(frames') = Len(frames) + (IF Len(frames) < MaxShownFrames THEN 1 ELSE 0)
          /\ (errors' # errors /\ errors' # <<>>) =>
                /\ errors = <<>> \/ errors'[1] # errors[1]
                /\ \A i \in 2..Len(errors') : errors'[i] = errors[i - 1]
                /\ Len(errors') = Len(errors) + (IF Len(errors) < MaxShownErrors THEN 1 ELSE 0)
         ]_vars

\* both lists are full and more frame events than fit have arrived
C25_Witness ==
    /\ arrived > MaxShownFrames
    /\ Len(frames) = MaxShownFrames
    /\ Len(errors) = MaxShownErrors

\* positions of a caller whose next statement reads or writes a.session
SlotPcs == {"start_check", "start_fail_clear", "stop_read", "stop_clear", "send_read"}
\* positions of a caller between an a.mu.Lock() and its a.mu.Unlock()
HeldPcs == SlotPcs \cup {"start_unlock_busy", "start_unlock", "start_fail_unlock",
                         "start_setconn", "start_unlock2", "stop_unlock",
                         "stop_unlock2", "send_unlock"}
\* positions of a caller dialing, waiting for the completion signal, transmitting
IoPcs == {"start_dial", "stop_wait", "send_tx"}
\* positions of a caller whose next statement is an a.mu.Lock()
LockPcs == {"idle", "start_fail_lock", "start_lock2", "stop_lock2"}

\* C23: a caller or worker is at a statement that reads or writes the slot
\* only while it holds the lock, and the slot changes only by such a
\* statement; the lock is held exactly between a Lock and the Unlock that
\* follows it on every path (never at a return, never by an exited worker);
\* nobody holds it while dialing, waiting for the completion signal,
\* transmitting or receiving; and whoever holds it can always take its next
\* step, so that a Lock never waits for another call's transport I/O.
C23_LockDiscipline ==
    /\ [](/\ \A c \in Callers :
                /\ lpc[c] \in SlotPcs => mu = c
                /\ mu = c <=> lpc[c] \in HeldPcs
                /\ lpc[c] \in IoPcs \cup LockPcs => mu # c
                /\ mu = c => ENABLED (MuStartCAN(c) \/ MuStopCAN(c) \/ MuSendFrame(c))
          /\ \A s \in Sessions :
                /\ mu = Worker(s) <=> lwpc[s] \in {"defer_clear", "defer_unlock"}
                /\ lwpc[s] \in {"recv", "defer_done", "defer_lock", "exited"} => mu # Worker(s)
                /\ mu = Worker(s) => ENABLED MuReceiveLoop(s)
          /\ mu \in {Free} \cup Callers \cup {Worker(s) : s \in Sessions})
    /\ [][session' # session =>
            /\ mu # Free /\ mu' = mu
            /\ \/ \E c \in Callers : mu = c /\ lpc[c] \in SlotPcs /\ lpc'[c] # lpc[c]
               \/ \E s \in Sessions : mu = Worker(s) /\ lwpc[s] = "defer_clear"
                                                     /\ lwpc'[s] = "defer_unlock"
         ]_vars

\* a StopCAN holds the lock and has read the slot while the StartCAN of that
\* session is dialing, after an earlier session's worker has gone through
\* its locked cleanup
C23_Witness ==
    \E c, d \in Callers : \E s \in Sessions :
        /\ lpc[c] = "start_dial"
        /\ lpc[d] = "stop_unlock" /\ mu = d /\ loc[d].sess = loc[c].sess
        /\ lwpc[s] = "exited"
====
